---- MODULE Spec2Model ----
(***************************************************************************)
(* speed-cloudflare-cli (src/cli.js): the measurement run of speedTest().  *)
(*                                                                         *)
(* The program is one async function that awaits two metadata fetches and  *)
(* then 20 latency probes, 43 download probes and 28 upload probes, one    *)
(* after the other.  Every probe is one call of request(), whose promise   *)
(* is settled by the callbacks that https.request() fires.  The model has  *)
(* one action per callback and per continuation of an await; the order in  *)
(* which node fires the callbacks is the environment.                      *)
(*                                                                         *)
(* stats.js is required by cli.js but is not among the sources; its three  *)
(* functions are modelled from section 4.1 of the specification.           *)
(***************************************************************************)
EXTENDS Integers, Sequences, FiniteSets, TLC

(***************************************************************************)
(* Bounds of the model.                                                    *)
(***************************************************************************)
\* The environment departs from the undisturbed run (every transfer
\* succeeds, the clock stands still, server-timing reports dur=0) at most
\* this many times: one unit per millisecond the clock advances, per
\* transfer that fails alone, per outage that begins, per response with
\* another server-timing value.
MaxDisturb == 1
\* The body of a response arrives in at most this many 'data' chunks.
MaxChunks == 1

(***************************************************************************)
(* JavaScript numbers: a rational n/d, NaN or +Infinity.                   *)
(***************************************************************************)
NaN == [k |-> "nan", n |-> 0, d |-> 1]
Infinity == [k |-> "inf", n |-> 1, d |-> 1]
Num(n) == [k |-> "num", n |-> n, d |-> 1]

RECURSIVE Gcd(_, _)
Gcd(a, b) == IF b = 0 THEN a ELSE Gcd(b, a % b)

Rat(n, d) == LET g == Gcd(n, d) IN [k |-> "num", n |-> n \div g, d |-> d \div g]

\* a - b on the values the timestamps and the server duration take
JsSub(a, b) ==
  IF a.k = "nan" \/ b.k = "nan" THEN NaN
  ELSE Num(a.n - b.n)

\* A let-variable of request() is undefined until its callback assigns it:
\* <<>> is undefined, <<t>> holds the reading t.
Undefined == <<>>
IsSet(slot) == Len(slot) = 1
\* the slot as an operand of the arithmetic of lines 158 and 180
ToNumber(slot) == IF IsSet(slot) THEN Num(slot[1]) ELSE NaN

(***************************************************************************)
(* cli.js:97  parseFloat(res.headers['server-timing'].slice(22))           *)
(* A header value is a sequence of characters; NoHeader is the header      *)
(* being absent from the response.                                         *)
(***************************************************************************)
NoHeader == <<"undefined">>
DurPrefix ==
  << "c", "f", "R", "e", "q", "u", "e", "s", "t", "D", "u", "r", "a", "t",
     "i", "o", "n", ";", "d", "u", "r", "=" >>
Digit(c) ==
  CASE c = "0" -> 0 [] c = "1" -> 1 [] c = "2" -> 2 [] c = "3" -> 3
    [] c = "4" -> 4 [] c = "5" -> 5 [] c = "6" -> 6 [] c = "7" -> 7
    [] c = "8" -> 8 [] c = "9" -> 9 [] OTHER -> -1

\* String.prototype.slice(22): the characters from index 22 on
Slice22(s) == IF Len(s) > Len(DurPrefix) THEN SubSeq(s, Len(DurPrefix) + 1, Len(s)) ELSE <<>>

RECURSIVE DigitsValue(_, _)
DigitsValue(s, acc) ==
  IF s = <<>> \/ Digit(Head(s)) < 0 THEN acc
  ELSE DigitsValue(Tail(s), 10 * acc + Digit(Head(s)))

\* parseFloat on an unsigned decimal integer prefix; NaN when there is none
ParseFloat(s) ==
  IF s = <<>> \/ Digit(Head(s)) < 0 THEN NaN ELSE Num(DigitsValue(s, 0))

ServerTiming(h) == ParseFloat(Slice22(h))

\* the server-timing values the environment sends
HeaderZero == DurPrefix \o <<"0">>
HeaderOne == DurPrefix \o <<"1">>
HeaderBad == DurPrefix \o <<"x">>
Headers == {NoHeader, HeaderZero, HeaderOne, HeaderBad}

(***************************************************************************)
(* cli.js:147-149  measureSpeed                                            *)
(* (bytes * 8) / (duration / 1000) / 1e6 is bytes / (125 * duration); a    *)
(* duration of 0 divides a positive number by 0, which is Infinity.        *)
(***************************************************************************)
measureSpeed(bytes, duration) ==
  IF duration.k = "nan" THEN NaN
  ELSE IF duration.k = "inf" THEN Num(0)
  ELSE IF duration.n = 0 THEN Infinity
  ELSE Rat(bytes * duration.d, 125 * duration.n)

(***************************************************************************)
(* The plan that speedTest() runs, in order: cli.js:231 (measureLatency,   *)
(* lines 154-155), 235-255 (measureDownload) and 274-276 (measureUpload).  *)
(***************************************************************************)
LatencyIterations == 20
LatencyBytes == 1000
Plan ==
  << [dir |-> "latency", bytes |-> LatencyBytes, iterations |-> LatencyIterations, label |-> "Latency"],
     [dir |-> "download", bytes |-> 11000, iterations |-> 10, label |-> "10kB"],
     [dir |-> "download", bytes |-> 101000, iterations |-> 10, label |-> "100kB"],
     [dir |-> "download", bytes |-> 1001000, iterations |-> 8, label |-> "1MB"],
     [dir |-> "download", bytes |-> 10001000, iterations |-> 5, label |-> "10MB"],
     [dir |-> "download", bytes |-> 25001000, iterations |-> 5, label |-> "25MB"],
     [dir |-> "download", bytes |-> 100001000, iterations |-> 5, label |-> "100MB"],
     [dir |-> "upload", bytes |-> 11000, iterations |-> 10, label |-> ""],
     [dir |-> "upload", bytes |-> 101000, iterations |-> 10, label |-> ""],
     [dir |-> "upload", bytes |-> 1001000, iterations |-> 8, label |-> ""] >>
Tests == 1..Len(Plan)
FirstDownload == 2
LastDownload == 7
LastUpload == 10

RECURSIVE Flatten(_)
Flatten(ss) == IF ss = <<>> THEN <<>> ELSE Head(ss) \o Flatten(Tail(ss))

(***************************************************************************)
(* stats.js, from section 4.1 of the specification: every function fails   *)
(* with InvalidInput on an empty sequence and is otherwise a pure function *)
(* of the samples, kept here as the term applied to them.                  *)
(***************************************************************************)
NegInfinity == [k |-> "inf", n |-> -1, d |-> 1]
\* cli.js:167-168  Math.min(...xs), Math.max(...xs): no error on no arguments
MathMin(xs) == IF xs = <<>> THEN Infinity ELSE [f |-> "min", of |-> xs]
MathMax(xs) == IF xs = <<>> THEN NegInfinity ELSE [f |-> "max", of |-> xs]

InvalidInput == [f |-> "InvalidInput", of |-> <<>>]
StatsApply(f, xs) == IF xs = <<>> THEN InvalidInput ELSE [f |-> f, of |-> xs]
average(xs) == StatsApply("average", xs)
median(xs) == StatsApply("median", xs)
quartile(xs, q) == IF xs = <<>> THEN InvalidInput ELSE [f |-> "quartile", of |-> xs, q |-> q]
Throws(v) == v = InvalidInput

\* an Error object, by its name
Caught(name) == [error |-> name]

VARIABLES
  pc,            \* where speedTest() stands
  test,          \* the entry of Plan whose loop is running (0 before the first)
  i,             \* the loop variable of the measure function running
  loop,          \* "top": about to test i; "await": suspended in the await
  measurements,  \* the array of the measure function running
  tests,         \* test1..test9 as far as they are assigned and still used
  ping,          \* the array measureLatency() returned
  out,           \* what console.log printed, in order
  now,           \* the reading performance.now() returns
  disturb,       \* disturbances so far (see MaxDisturb)
  netDown,       \* an outage is going on: every transfer fails
  phase,         \* how far the request in flight has come
  started, dnsLookup, tcpHandshake, sslHandshake, ttfb, ended,
                 \* the let-variables of the request() call in flight
  header,        \* res.headers['server-timing'] of the response
  chunks,        \* 'data' events of the response so far
  promise,       \* the promise request() returned: its state
  value,         \* what it was resolved or rejected with
  inflight,      \* promises of request() not settled yet
  issued,        \* per entry of Plan: calls of download()/upload() so far
  resolved,      \* per entry of Plan: promises resolved so far
  rejected,      \* per entry of Plan: promises rejected so far
  options,       \* the options and data request() was last called with
  meta,          \* the get() call in flight
  stale,         \* what a listener that an earlier call of request() left
                 \* on the socket last wrote into a let-variable of its call
  exception      \* what ended the process or speedTest(): <<>> when nothing

reqVars == <<phase, started, dnsLookup, tcpHandshake, sslHandshake, ttfb, ended, header, chunks>>
envVars == <<now, disturb, netDown>>
loopVars == <<pc, test, i, loop, measurements, tests, ping, out>>
histVars == <<inflight, issued, resolved, rejected, options>>
vars == <<loopVars, envVars, reqVars, promise, value, histVars, meta, exception, stale>>

Init ==
  /\ pc = "locations"
  /\ test = 0
  /\ i = 0
  /\ loop = "top"
  /\ measurements = <<>>
  /\ tests = <<>>
  /\ ping = <<>>
  /\ out = <<>>
  /\ now = 0
  /\ disturb = 0
  /\ netDown = FALSE
  /\ phase = "idle"
  /\ started = Undefined
  /\ dnsLookup = Undefined
  /\ tcpHandshake = Undefined
  /\ sslHandshake = Undefined
  /\ ttfb = Undefined
  /\ ended = Undefined
  /\ header = NoHeader
  /\ chunks = 0
  /\ promise = "none"
  /\ value = <<>>
  /\ inflight = 0
  /\ issued = [t \in Tests |-> 0]
  /\ resolved = [t \in Tests |-> 0]
  /\ rejected = [t \in Tests |-> 0]
  /\ options = [method |-> "", path |-> "", bytes |-> 0, data |-> 0]
  /\ meta = "idle"
  /\ exception = <<>>
  /\ stale = Undefined

(***************************************************************************)
(* The environment.                                                        *)
(***************************************************************************)
\* performance.now() is monotonic: between two readings it advanced by d ms.
Tick(d) ==
  /\ d = 1 => disturb < MaxDisturb
  /\ now' = now + d
  /\ disturb' = disturb + d

\* The process is alive: no uncaught exception, speedTest() not finished.
Running == pc \in {"locations", "trace", "measure"}

(***************************************************************************)
(* cli.js:8-36  get(hostname, path), awaited at lines 39 and 70.           *)
(***************************************************************************)
\* lines 9-34: the request is written; the promise is pending
GetIssue ==
  /\ pc \in {"locations", "trace"}
  /\ meta = "idle"
  /\ meta' = "sent"
  /\ UNCHANGED <<loopVars, envVars, reqVars, promise, value, histVars, exception>>
  /\ UNCHANGED stale

\* lines 16-31: the response callback registers 'data', 'end' and, only
\* now, the 'error' listener of the request
GetResponse ==
  /\ Running
  /\ meta = "sent"
  /\ meta' = "response"
  /\ UNCHANGED <<loopVars, envVars, reqVars, promise, value, histVars, exception>>
  /\ UNCHANGED stale

\* lines 21-27: 'end' resolves the promise with the body
GetEnd ==
  /\ Running
  /\ meta = "response"
  /\ meta' = "resolved"
  /\ UNCHANGED <<loopVars, envVars, reqVars, promise, value, histVars, exception>>
  /\ UNCHANGED stale

\* An 'error' event of the request.  After the response callback ran, the
\* listener of lines 28-30 rejects the promise, and the await of line 39 or
\* 70 rethrows: speedTest() ends rejected.  Before it (a failure of DNS,
\* TCP or TLS, a reset before the response) the request has no 'error'
\* listener: the event is thrown as an uncaught exception, the promise is
\* left as it is.
GetError ==
  /\ Running
  /\ meta \in {"sent", "response"}
  /\ meta' = IF meta = "sent" THEN "error" ELSE "rejected"
  /\ pc' = IF meta = "sent" THEN "crashed" ELSE "fatal"
  /\ exception' = Caught("RequestError")
  /\ UNCHANGED <<test, i, loop, measurements, tests, ping, out>>
  /\ UNCHANGED <<envVars, reqVars, promise, value, histVars>>
  /\ UNCHANGED stale

\* The server closes the connection before the body is complete: the
\* response emits 'aborted' and 'close', never 'end', and the request no
\* 'error'.  get() listens to none of them (lines 18-30): the promise stays
\* pending.
GetAborted ==
  /\ Running
  /\ meta = "response"
  /\ meta' = "aborted"
  /\ UNCHANGED <<loopVars, envVars, reqVars, promise, value, histVars, exception>>
  /\ UNCHANGED stale

\* cli.js:38-48, 222  fetchServerLocationData resumes: JSON.parse of the
\* body (bodyOk: it parses) and the reduce
AfterLocations ==
  /\ pc = "locations"
  /\ meta = "resolved"
  /\ \E bodyOk \in BOOLEAN :
       /\ pc' = IF bodyOk THEN "trace" ELSE "fatal"
       /\ meta' = IF bodyOk THEN "idle" ELSE meta
       /\ exception' = IF bodyOk THEN exception ELSE Caught("SyntaxError")
  /\ UNCHANGED <<test, i, loop, measurements, tests, ping, out>>
  /\ UNCHANGED <<envVars, reqVars, promise, value, histVars>>
  /\ UNCHANGED stale

\* cli.js:224-231  the trace is parsed, the two logInfo lines are printed
\* and measureLatency() is called
AfterTrace ==
  /\ pc = "trace"
  /\ meta = "resolved"
  /\ pc' = "measure"
  /\ test' = 1
  /\ i' = 0
  /\ loop' = "top"
  /\ measurements' = <<>>
  /\ out' = out \o << [label |-> "Server location", val |-> <<>>],
                      [label |-> "Your IP", val |-> <<>>] >>
  /\ UNCHANGED <<tests, ping, meta>>
  /\ UNCHANGED <<envVars, reqVars, promise, value, histVars, exception>>
  /\ UNCHANGED stale

(***************************************************************************)
(* cli.js:73-121  request(options, data), called by download() (123-131)   *)
(* and upload() (133-145).                                                 *)
(***************************************************************************)
\* lines 123-131: download(bytes): the options of the GET
download(bytes) == [method |-> "GET", path |-> "/__down", bytes |-> bytes, data |-> 0]

\* lines 133-145: upload(bytes): the options of the POST and its data, a
\* string of that many characters
upload(bytes) == [method |-> "POST", path |-> "/__up", bytes |-> 0, data |-> bytes]

\* the loop without its await: the next transfer does not wait for the last
AtLoopTopNoAwait == pc = "measure"

\* The loop of the measure function running is at its test i < iterations
\* and no await is outstanding (lines 154-155, 177-178, 195-196).
AtLoopTop == pc = "measure" /\ loop = "top"

\* the loop stopping one iteration short
LoopCondShort(t, k) == k < Plan[t].iterations - 1

\* lines 154, 177, 195: the condition of the for loop, i < iterations
LoopCond(t, k) == k < Plan[t].iterations

\* lines 74-82, 102-119: a fresh set of let-variables, started is read, the
\* listeners are registered and the request is written; the promise is
\* returned pending and the loop suspends in its await
Request ==
  /\ AtLoopTop
  /\ LoopCond(test, i)
  /\ \E d \in 0..1 :
       /\ Tick(d)
       /\ started' = <<now'>>
  /\ dnsLookup' = Undefined
  /\ tcpHandshake' = Undefined
  /\ sslHandshake' = Undefined
  /\ ttfb' = Undefined
  /\ ended' = Undefined
  /\ header' = NoHeader
  /\ chunks' = 0
  /\ phase' = "sent"
  /\ promise' = "pending"
  /\ value' = <<>>
  /\ loop' = "await"
  /\ inflight' = inflight + 1
  /\ issued' = [issued EXCEPT ![test] = @ + 1]
  /\ options' = IF Plan[test].dir = "upload" THEN upload(Plan[test].bytes)
                ELSE download(Plan[test].bytes)
  /\ UNCHANGED <<pc, test, i, measurements, tests, ping, out, netDown, resolved, rejected, meta, exception>>
  /\ UNCHANGED stale

\* lines 102-112: 'socket': the three listeners are put on the socket
OnSocket ==
  /\ Running
  /\ phase = "sent"
  /\ phase' = "socket"
  /\ UNCHANGED <<started, dnsLookup, tcpHandshake, sslHandshake, ttfb, ended, header, chunks>>
  /\ UNCHANGED <<loopVars, envVars, promise, value, histVars, meta, exception>>
  /\ UNCHANGED stale

\* lines 103-105: 'lookup' of a socket that is being connected
OnLookup ==
  /\ Running
  /\ phase = "socket"
  /\ ~IsSet(dnsLookup) /\ ~IsSet(tcpHandshake)
  /\ \E d \in 0..1 :
       /\ Tick(d)
       /\ dnsLookup' = <<now'>>
  /\ UNCHANGED <<phase, started, tcpHandshake, sslHandshake, ttfb, ended, header, chunks>>
  /\ UNCHANGED <<loopVars, netDown, promise, value, histVars, meta, exception>>
  /\ UNCHANGED stale

\* lines 106-108: 'connect'
OnConnect ==
  /\ Running
  /\ phase = "socket"
  /\ ~IsSet(tcpHandshake)
  /\ \E d \in 0..1 :
       /\ Tick(d)
       /\ tcpHandshake' = <<now'>>
  /\ UNCHANGED <<phase, started, dnsLookup, sslHandshake, ttfb, ended, header, chunks>>
  /\ UNCHANGED <<loopVars, netDown, promise, value, histVars, meta, exception>>
  /\ UNCHANGED stale

\* lines 109-111: 'secureConnect', after the TCP connection is made
OnSecureConnect ==
  /\ Running
  /\ phase = "socket"
  /\ IsSet(tcpHandshake) /\ ~IsSet(sslHandshake)
  /\ \E d \in 0..1 :
       /\ Tick(d)
       /\ sslHandshake' = <<now'>>
  /\ UNCHANGED <<phase, started, dnsLookup, tcpHandshake, ttfb, ended, header, chunks>>
  /\ UNCHANGED <<loopVars, netDown, promise, value, histVars, meta, exception>>
  /\ UNCHANGED stale

\* The connection carries the request: a reused socket fires none of the
\* three events, a new one is connected and has finished its handshake.
Connected ==
  \/ ~IsSet(dnsLookup) /\ ~IsSet(tcpHandshake)
  \/ IsSet(sslHandshake)

\* a server-timing value other than dur=0 is a disturbance; a response
\* without the header ends the run at its 'end' event
HeaderCost(h) == IF h \in {HeaderZero, NoHeader} THEN 0 ELSE 1

\* lines 83-99: the response callback: the headers are in, the three
\* listeners of the response are registered
OnResponse ==
  /\ Running
  /\ phase = "socket"
  /\ Connected
  /\ ~netDown
  /\ \E h \in Headers :
       /\ disturb + HeaderCost(h) <= MaxDisturb
       /\ disturb' = disturb + HeaderCost(h)
       /\ header' = h
  /\ phase' = "response"
  /\ UNCHANGED <<started, dnsLookup, tcpHandshake, sslHandshake, ttfb, ended, chunks>>
  /\ UNCHANGED <<loopVars, now, netDown, promise, value, histVars, meta, exception>>
  /\ UNCHANGED stale

\* lines 84-86: 'readable', once: the first of the body, or its end, can be
\* read.  The stream flows only after this listener is gone.
OnReadable ==
  /\ Running
  /\ phase = "response"
  /\ \E d \in 0..1 :
       /\ Tick(d)
       /\ ttfb' = <<now'>>
  /\ phase' = "readable"
  /\ UNCHANGED <<started, dnsLookup, tcpHandshake, sslHandshake, ended, header, chunks>>
  /\ UNCHANGED <<loopVars, netDown, promise, value, histVars, meta, exception>>
  /\ UNCHANGED stale

\* line 87: 'data': the chunk is dropped
OnData ==
  /\ Running
  /\ phase = "readable"
  /\ chunks < MaxChunks
  /\ chunks' = chunks + 1
  /\ UNCHANGED <<phase, started, dnsLookup, tcpHandshake, sslHandshake, ttfb, ended, header>>
  /\ UNCHANGED <<loopVars, envVars, promise, value, histVars, meta, exception>>
  /\ UNCHANGED stale

\* the array built before ended is assigned
TimingSampleEarly(e) ==
  [ started |-> started, dnsLookup |-> dnsLookup, tcpHandshake |-> tcpHandshake,
    sslHandshake |-> sslHandshake, ttfb |-> ttfb, ended |-> ended,
    serverTime |-> ServerTiming(header) ]

\* the array with 0 in the place of a reading that was not taken
TimingSampleZeroed(e) ==
  [ started |-> started,
    dnsLookup |-> IF IsSet(dnsLookup) THEN dnsLookup ELSE <<0>>,
    tcpHandshake |-> IF IsSet(tcpHandshake) THEN tcpHandshake ELSE <<0>>,
    sslHandshake |-> IF IsSet(sslHandshake) THEN sslHandshake ELSE <<0>>,
    ttfb |-> ttfb, ended |-> e, serverTime |-> ServerTiming(header) ]

\* lines 90-98: the array the promise is resolved with
TimingSample(e) ==
  [ started |-> started, dnsLookup |-> dnsLookup, tcpHandshake |-> tcpHandshake,
    sslHandshake |-> sslHandshake, ttfb |-> ttfb, ended |-> e,
    serverTime |-> ServerTiming(header) ]

\* lines 88-99: 'end': the body is drained.  ended is read; the array is
\* built, which throws a TypeError out of the listener when the response
\* has no server-timing header (undefined.slice): an uncaught exception,
\* the promise is not settled.  Otherwise the promise is resolved.
OnEnd ==
  /\ Running
  /\ phase = "readable"
  /\ \E d \in 0..1 :
       /\ Tick(d)
       /\ ended' = <<now'>>
  /\ phase' = "ended"
  /\ IF header = NoHeader
     THEN /\ pc' = "crashed"
          /\ exception' = Caught("TypeError")
          /\ UNCHANGED <<promise, value, inflight, resolved>>
     ELSE /\ promise' = "resolved"
          /\ value' = TimingSample(ended')
          /\ inflight' = inflight - 1
          /\ resolved' = [resolved EXCEPT ![test] = @ + 1]
          /\ UNCHANGED <<pc, exception>>
  /\ UNCHANGED <<started, dnsLookup, tcpHandshake, sslHandshake, ttfb, header, chunks>>
  /\ UNCHANGED <<test, i, loop, measurements, tests, ping, out>>
  /\ UNCHANGED <<netDown, issued, rejected, options, meta>>
  /\ UNCHANGED stale

\* lines 114-116: 'error' of the request (DNS, TCP, TLS failure, a reset of
\* the connection before or during the response): the promise is rejected.
\* The failure is of this transfer alone, or the begin of an outage
\* (lasting), during which every transfer fails before its response.
OnError ==
  /\ Running
  /\ phase \in {"sent", "socket", "response", "readable"}
  /\ IF netDown
     THEN UNCHANGED <<disturb, netDown>>
     ELSE /\ disturb < MaxDisturb
          /\ disturb' = disturb + 1
          /\ \E lasting \in BOOLEAN : netDown' = lasting
  /\ phase' = "failed"
  /\ promise' = "rejected"
  /\ value' = Caught("TransferFailed")
  /\ inflight' = inflight - 1
  /\ rejected' = [rejected EXCEPT ![test] = @ + 1]
  /\ UNCHANGED <<started, dnsLookup, tcpHandshake, sslHandshake, ttfb, ended, header, chunks>>
  /\ UNCHANGED <<loopVars, now, issued, resolved, options, meta, exception>>
  /\ UNCHANGED stale

\* The server closes the connection before the body is complete: the
\* response emits 'aborted' and 'close', never 'end', and the request no
\* 'error'.  request() listens to none of them (lines 84-99, 114-116): the
\* promise stays pending.
OnAborted ==
  /\ Running
  /\ phase \in {"response", "readable"}
  /\ phase' = "aborted"
  /\ UNCHANGED <<started, dnsLookup, tcpHandshake, sslHandshake, ttfb, ended, header, chunks>>
  /\ UNCHANGED <<loopVars, envVars, promise, value, histVars, meta, exception>>
  /\ UNCHANGED stale

\* lines 102-112: the listeners stay on the socket when the response has
\* ended.  A 'lookup', 'connect' or 'secureConnect' of the socket after
\* that assigns the let-variable of the call that registered the listener;
\* the array the promise was resolved with holds the earlier values.  The
\* callback of then() has run by then: it is a microtask of the 'end'.
OnLateEvent ==
  /\ Running
  /\ phase = "ended"
  /\ loop = "top"
  /\ disturb < MaxDisturb
  /\ disturb' = disturb + 1
  /\ \E event \in {"lookup", "connect", "secureConnect"} :
       /\ dnsLookup' = IF event = "lookup" THEN <<now>> ELSE dnsLookup
       /\ tcpHandshake' = IF event = "connect" THEN <<now>> ELSE tcpHandshake
       /\ sslHandshake' = IF event = "secureConnect" THEN <<now>> ELSE sslHandshake
  /\ UNCHANGED <<phase, started, ttfb, ended, header, chunks>>
  /\ UNCHANGED <<loopVars, now, netDown, promise, value, histVars, meta, exception, stale>>

\* let-variables shared by all calls: the listener of the earlier call
\* assigns the variable the call in flight reads
OnStaleListenerShared ==
  /\ Running
  /\ issued[1] >= 2
  /\ phase \in {"socket", "response", "readable"}
  /\ disturb < MaxDisturb
  /\ disturb' = disturb + 1
  /\ stale' = <<now>>
  /\ dnsLookup' = <<now>>
  /\ UNCHANGED <<phase, started, tcpHandshake, sslHandshake, ttfb, ended, header, chunks>>
  /\ UNCHANGED <<loopVars, now, netDown, promise, value, histVars, meta, exception>>

\* lines 74-79, 102-112: the socket is the one an earlier call of request()
\* used, and the listeners of that call are still on it.  An event of the
\* socket runs them: each assigns the let-variable of its own call, which
\* is not a variable of the call in flight.
OnStaleListener ==
  /\ Running
  /\ issued[1] >= 2
  /\ phase \in {"socket", "response", "readable"}
  /\ disturb < MaxDisturb
  /\ disturb' = disturb + 1
  /\ stale' = <<now>>
  /\ UNCHANGED <<reqVars, loopVars, now, netDown, promise, value, histVars, meta, exception>>

\* reject() settling the promise a second time
OnLateErrorRejects ==
  /\ Running
  /\ phase \in {"ended", "failed"}
  /\ promise \in {"resolved", "rejected"}
  /\ loop = "top"
  /\ disturb < MaxDisturb
  /\ disturb' = disturb + 1
  /\ promise' = "rejected"
  /\ value' = Caught("TransferFailed")
  /\ rejected' = [rejected EXCEPT ![test] = @ + 1]
  /\ UNCHANGED <<reqVars, loopVars, now, netDown, inflight, issued, resolved, options>>
  /\ UNCHANGED <<meta, exception, stale>>

\* lines 114-116: 'error' of the request after its promise was settled (the
\* connection is reset after the response has ended, or fails a second
\* time), when the callback of then() has run: reject() of a settled
\* promise does nothing.
OnLateError ==
  /\ Running
  /\ phase \in {"ended", "failed"}
  /\ promise \in {"resolved", "rejected"}
  /\ loop = "top"
  /\ disturb < MaxDisturb
  /\ disturb' = disturb + 1
  /\ UNCHANGED <<reqVars, loopVars, now, netDown, promise, value, histVars>>
  /\ UNCHANGED <<meta, exception, stale>>

(***************************************************************************)
(* cli.js:151-208  the three measure functions.                            *)
(***************************************************************************)
\* the latency without the correction by the server's processing time
LatencySampleRaw(response) == JsSub(ToNumber(response.ttfb), ToNumber(response.started))

\* line 158: TTFB - started - server processing time
LatencySample(response) ==
  JsSub(JsSub(ToNumber(response.ttfb), ToNumber(response.started)), response.serverTime)

\* the transfer timed from the begin of the request, not from the first byte
DownloadSampleFromStart(bytes, response) ==
  measureSpeed(bytes, JsSub(ToNumber(response.ended), ToNumber(response.started)))

\* lines 180-181
DownloadSample(bytes, response) ==
  measureSpeed(bytes, JsSub(ToNumber(response.ended), ToNumber(response.ttfb)))

\* the upload timed on the client, like a download
UploadSampleLocal(bytes, response) ==
  measureSpeed(bytes, JsSub(ToNumber(response.ended), ToNumber(response.ttfb)))

\* lines 198-199
UploadSample(bytes, response) == measureSpeed(bytes, response.serverTime)

\* the first callback of then(): what it pushes
Sample(t, response) ==
  CASE Plan[t].dir = "latency" -> LatencySample(response)
    [] Plan[t].dir = "download" -> DownloadSample(Plan[t].bytes, response)
    [] Plan[t].dir = "upload" -> UploadSample(Plan[t].bytes, response)

\* what the first callback of then() leaves in measurements
Pushed(ms, t, response) == Append(ms, Sample(t, response))

\* the error callback recording a sample all the same
SkippedPushes(ms) == Append(ms, NaN)

\* what the second callback of then() leaves in measurements
Skipped(ms) == ms

\* the line console.log prints for a rejected transfer
ErrorLine(error) == [label |-> "Error", val |-> error]

\* lines 156-159, 179-182, 197-200: the promise was resolved; the sample
\* is pushed, the await returns and i += 1
ThenFulfilled ==
  /\ pc = "measure"
  /\ loop = "await"
  /\ promise = "resolved"
  /\ measurements' = Pushed(measurements, test, value)
  /\ i' = i + 1
  /\ loop' = "top"
  /\ UNCHANGED <<pc, test, tests, ping, out>>
  /\ UNCHANGED <<envVars, reqVars, promise, value, histVars, meta, exception>>
  /\ UNCHANGED stale

\* then() without its second callback: the await rethrows the rejection
ThenRejectedRethrows ==
  /\ pc = "measure"
  /\ loop = "await"
  /\ promise = "rejected"
  /\ pc' = "fatal"
  /\ exception' = value
  /\ UNCHANGED <<test, i, loop, measurements, tests, ping, out>>
  /\ UNCHANGED <<envVars, reqVars, promise, value, histVars, meta>>
  /\ UNCHANGED stale

\* the rejected transfer tried again: i is not advanced
ThenRejectedRetries ==
  /\ pc = "measure"
  /\ loop = "await"
  /\ promise = "rejected"
  /\ measurements' = Skipped(measurements)
  /\ out' = Append(out, ErrorLine(value))
  /\ loop' = "top"
  /\ UNCHANGED <<pc, test, i, tests, ping>>
  /\ UNCHANGED <<envVars, reqVars, promise, value, histVars, meta, exception>>
  /\ UNCHANGED stale

\* lines 160-162, 183-185, 201-203: the promise was rejected; the error is
\* printed, the await returns and i += 1
ThenRejected ==
  /\ pc = "measure"
  /\ loop = "await"
  /\ promise = "rejected"
  /\ measurements' = Skipped(measurements)
  /\ out' = Append(out, ErrorLine(value))
  /\ i' = i + 1
  /\ loop' = "top"
  /\ UNCHANGED <<pc, test, tests, ping>>
  /\ UNCHANGED <<envVars, reqVars, promise, value, histVars, meta, exception>>
  /\ UNCHANGED stale

\* the array built with the exception of stats swallowed
LatencySummaryUnchecked(ms) == <<MathMin(ms), MathMax(ms), average(ms), median(ms)>>

\* lines 166-171: the array measureLatency returns; building it throws what
\* stats.average throws
LatencySummary(ms) ==
  IF Throws(average(ms)) THEN average(ms)
  ELSE IF Throws(median(ms)) THEN median(ms)
  ELSE <<MathMin(ms), MathMax(ms), average(ms), median(ms)>>

\* lines 154, 166-171, 231-235: the loop of measureLatency is over; the
\* summary is built and its median printed, measureDownload(11000, 10) is
\* called.  An exception of stats ends speedTest() rejected.
LatencyReturn ==
  /\ AtLoopTop
  /\ Plan[test].dir = "latency"
  /\ ~LoopCond(test, i)
  /\ IF Throws(LatencySummary(measurements))
     THEN /\ pc' = "fatal"
          /\ exception' = LatencySummary(measurements)
          /\ UNCHANGED <<test, i, measurements, ping, out>>
     ELSE /\ ping' = LatencySummary(measurements)
          /\ out' = Append(out, [label |-> Plan[test].label, val |-> ping'[4]])
          /\ test' = test + 1
          /\ i' = 0
          /\ measurements' = <<>>
          /\ UNCHANGED <<pc, exception>>
  /\ UNCHANGED <<loop, tests>>
  /\ UNCHANGED <<envVars, reqVars, promise, value, histVars, meta>>
  /\ UNCHANGED stale

\* lines 214-219: logSpeedTestResult prints the median of one size
SpeedTestResult(size, t) == [label |-> size, val |-> median(t)]

\* the headline over the array of the last size alone
HeadlineOfLast(label, ts) == [label |-> label, val |-> quartile(ts[Len(ts)], <<9, 10>>)]

\* lines 259-272 and 278-286: the headline over all arrays of a direction,
\* the 0.9 quartile (9 of 10)
Headline(label, ts) == [label |-> label, val |-> quartile(Flatten(ts), <<9, 10>>)]

\* lines 177, 189, 235-274: the loop of measureDownload is over; the array
\* is test1..test6, its median is printed and the next measure function is
\* called; after test6 the download headline is printed first.
DownloadReturn ==
  /\ AtLoopTop
  /\ Plan[test].dir = "download"
  /\ ~LoopCond(test, i)
  /\ LET all == Append(tests, measurements)
         line == SpeedTestResult(Plan[test].label, measurements)
         head == Headline("Download speed", all)
     IN IF Throws(line.val) \/ (test = LastDownload /\ Throws(head.val))
        THEN /\ pc' = "fatal"
             /\ exception' = IF Throws(line.val) THEN line.val ELSE head.val
             /\ tests' = all
             /\ UNCHANGED <<test, i, measurements, out>>
        ELSE /\ out' = IF test = LastDownload THEN out \o <<line, head>>
                       ELSE Append(out, line)
             /\ tests' = IF test = LastDownload THEN <<>> ELSE all
             /\ test' = test + 1
             /\ i' = 0
             /\ measurements' = <<>>
             /\ UNCHANGED <<pc, exception>>
  /\ UNCHANGED <<loop, ping>>
  /\ UNCHANGED <<envVars, reqVars, promise, value, histVars, meta>>
  /\ UNCHANGED stale

\* lines 195, 207, 274-287: the loop of measureUpload is over; the array is
\* test7..test9; after test9 the upload headline is printed and
\* speedTest() returns.
UploadReturn ==
  /\ AtLoopTop
  /\ Plan[test].dir = "upload"
  /\ ~LoopCond(test, i)
  /\ LET all == Append(tests, measurements)
         head == Headline("Upload speed", all)
     IN /\ tests' = all
        /\ IF test < LastUpload
           THEN /\ test' = test + 1
                /\ i' = 0
                /\ measurements' = <<>>
                /\ UNCHANGED <<pc, out, exception>>
           ELSE IF Throws(head.val)
           THEN /\ pc' = "fatal"
                /\ exception' = head.val
                /\ UNCHANGED <<test, i, measurements, out>>
           ELSE /\ pc' = "done"
                /\ out' = Append(out, head)
                /\ UNCHANGED <<test, i, measurements, exception>>
  /\ UNCHANGED <<loop, ping>>
  /\ UNCHANGED <<envVars, reqVars, promise, value, histVars, meta>>
  /\ UNCHANGED stale

Next ==
  \/ GetIssue
  \/ GetResponse
  \/ GetEnd
  \/ GetError
  \/ GetAborted
  \/ AfterLocations
  \/ AfterTrace
  \/ Request
  \/ OnSocket
  \/ OnLookup
  \/ OnConnect
  \/ OnSecureConnect
  \/ OnResponse
  \/ OnReadable
  \/ OnData
  \/ OnEnd
  \/ OnError
  \/ OnAborted
  \/ OnLateEvent
  \/ OnStaleListener
  \/ OnLateError
  \/ ThenFulfilled
  \/ ThenRejected
  \/ LatencyReturn
  \/ DownloadReturn
  \/ UploadReturn

Spec == Init /\ [][Next]_vars

\* node runs every callback that is ready and every continuation of a
\* settled await: a step that can be taken is taken.
FairSpec == Spec /\ WF_vars(Next)

(***************************************************************************)
(* Properties.                                                             *)
(***************************************************************************)
\* promises of entry t of the plan that are settled
Settled(t) == resolved[t] + rejected[t]
\* the loop of entry t is over and its function has returned
Returned(t) == pc = "done" \/ (pc \in {"measure", "fatal"} /\ test > t)
\* the lines of out that print a summary
IsSummaryLine(line) == line.label \notin {"Error", "Server location", "Your IP"}
InMeasure == pc = "measure" /\ test \in Tests

\* C1: at most one transfer is in flight in every reachable state: while
\* the promise of a transfer is unsettled no other transfer has been issued.
C1_OneTransferInFlight ==
  /\ inflight \in {0, 1}
  /\ inflight = 1 <=> promise = "pending"
  /\ promise = "pending" => loop = "await"

C1_Witness ==
  /\ inflight = 1
  /\ test = LastUpload
  /\ phase = "readable"

\* C2: the entries of the plan run in order: a probe of an entry is issued
\* only when every probe of every earlier entry has settled (all 20 latency
\* probes before the first download, every probe of one size before the
\* first of the next, the last download before the first upload), and the
\* download sizes ascend.
C2_StagesOrdered ==
  /\ \A t \in Tests : issued[t] > 0 =>
       \A u \in 1..(t - 1) :
         /\ issued[u] = Plan[u].iterations
         /\ Settled(u) = Plan[u].iterations
  /\ \A t \in Tests : issued[t] > 0 => test >= t
  /\ \A t, u \in FirstDownload..LastDownload : t < u => Plan[t].bytes < Plan[u].bytes
  /\ \A t \in Tests :
       Plan[t].dir = ( IF t < FirstDownload THEN "latency"
                       ELSE IF t <= LastDownload THEN "download" ELSE "upload" )

C2_Witness ==
  /\ issued[LastUpload] = 1
  /\ rejected[FirstDownload] = 1

\* C3: a rejected transfer is caught and reported, adds no sample, and the
\* loop goes on with the next iteration: the step that follows the
\* rejection prints the error, leaves the samples as they are and returns
\* to the loop with i + 1, and every entry of the plan that has returned
\* has issued all its iterations, however many of them failed.
C3_FailedProbeSkipped ==
  /\ [](\A t \in Tests : Returned(t) => issued[t] = Plan[t].iterations)
  /\ [][ (promise = "rejected" /\ loop = "await") =>
           /\ measurements' = measurements
           /\ out' = Append(out, ErrorLine(value))
           /\ i' = i + 1
           /\ loop' = "top"
           /\ pc' = "measure"
           /\ test' = test ]_vars

C3_Witness ==
  /\ InMeasure
  /\ rejected[test] = 1
  /\ loop = "await"
  /\ promise = "resolved"
  /\ \E k \in DOMAIN out : out[k].label = "Error"
  /\ i >= 2
  /\ Len(measurements) = i - 1

\* C4: every failure of a transfer, before the response or in the middle of
\* the body, rejects the promise: no transfer is left unsettled by a
\* failure.  (Violated: a connection closed before the body is complete
\* leaves the promise pending.)
C4_EveryFailureRejects ==
  phase \in {"failed", "aborted"} => promise = "rejected"

\* C5: a response whose server-timing header is missing or unparsable is a
\* failed transfer: its promise is rejected, the run goes on, and no
\* non-numeric sample is recorded.  (Violated: an unparsable header resolves
\* the promise with NaN, a missing one throws out of the 'end' listener.)
C5_MalformedHeaderIsFailure ==
  /\ (phase = "ended" /\ (header = NoHeader \/ ServerTiming(header) = NaN)) =>
       (promise = "rejected" /\ pc = "measure")
  /\ \A k \in DOMAIN measurements : measurements[k] # NaN

\* C6: an empty sample set is fatal: when all probes of the latency stage,
\* of one download size or of the upload stage have failed, the summary
\* over the empty array throws InvalidInput, speedTest() ends with it, no
\* later probe is issued, and no line of the output is a summary of no
\* samples.
C6_EmptySampleSetIsFatal ==
  /\ \A k \in DOMAIN out : IsSummaryLine(out[k]) =>
       (~Throws(out[k].val) /\ out[k].val.of # <<>>)
  /\ \A t \in 1..LastDownload : rejected[t] = Plan[t].iterations =>
       /\ pc \in {"measure", "fatal"}
       /\ test = t
       /\ issued[t + 1] = 0
       /\ Returned(t) = FALSE
       /\ \A k \in DOMAIN out : out[k].label # Plan[t].label
  /\ (\A t \in (LastDownload + 1)..LastUpload : rejected[t] = Plan[t].iterations) =>
       /\ pc \in {"measure", "fatal"}
       /\ \A k \in DOMAIN out : out[k].label # "Upload speed"
  /\ (pc = "fatal" /\ test \in Tests) =>
       /\ exception = InvalidInput
       /\ loop = "top"
       /\ ~LoopCond(test, i)
       /\ IF Plan[test].dir = "upload" THEN Flatten(tests) = <<>>
          ELSE measurements = <<>>
  /\ (InMeasure /\ loop = "top" /\ ~LoopCond(test, i) /\ measurements = <<>>
        /\ Plan[test].dir # "upload") => ~ENABLED Request

C6_Witness ==
  /\ pc = "fatal"
  /\ test = 1
  /\ rejected[1] = LatencyIterations
  /\ exception = InvalidInput

\* a transfer or fetch that will never settle: its response was aborted, or
\* an uncaught exception ended the process
NeverSettles == phase = "aborted" \/ pc = "crashed"
\* speedTest() has returned after printing the upload headline
Terminal ==
  /\ pc = "done"
  /\ out # <<>>
  /\ out[Len(out)].label = "Upload speed"
\* speedTest() has ended rejected with the exception of a summary
FatalSummary == pc = "fatal" /\ test \in Tests /\ exception = InvalidInput

\* C7 as stated: when every issued transfer settles, every measurement run
\* reaches the terminal state, whatever the mix of successes and failures.
\* (Violated: a run whose 20 latency probes all fail ends at the latency
\* summary.)
C7_AlwaysReachesTerminal ==
  ([]~NeverSettles /\ <>(pc = "measure")) => <>Terminal

\* C7, amended: the terminal state is the one after the 8th probe of size
\* 1001000 settled and the upload headline was printed; when every issued
\* transfer settles, every measurement run ends, in the terminal state or
\* before it with the InvalidInput of a summary over no samples.
C7_RunEnds ==
  /\ [](pc = "done" =>
          /\ Terminal
          /\ test = LastUpload
          /\ Plan[LastUpload].bytes = 1001000
          /\ issued[LastUpload] = 8
          /\ Settled(LastUpload) = 8)
  /\ ([]~NeverSettles /\ <>(pc = "measure")) => <>(Terminal \/ FatalSummary)

C7_Witness ==
  /\ Terminal
  /\ rejected[LastUpload] = 1
  /\ resolved[LastUpload] = 7

\* C8: a throughput over a duration of 0 fails and records no sample: the
\* arrays of the download and upload loops never hold the quotient of a
\* division by zero.  (Violated: measureSpeed returns Infinity and the
\* sample is pushed.)
C8_ZeroDurationFails ==
  (InMeasure /\ Plan[test].dir # "latency") =>
    \A k \in DOMAIN measurements : measurements[k] # Infinity

\* the readings of a timing sample that were taken, in the order of the
\* phases
Observed(r) ==
  r.started \o r.dnsLookup \o r.tcpHandshake \o r.sslHandshake \o r.ttfb \o r.ended

\* C9: a transfer completes only at the 'end' of its response, with ended
\* assigned, and the array it delivers has started, timeToFirstByte and
\* ended present and the readings that were taken in nondecreasing order
\* started <= dnsLookup <= tcpHandshake <= sslHandshake <= timeToFirstByte
\* <= ended.
C9_CompleteAndOrdered ==
  promise = "resolved" =>
    /\ phase = "ended"
    /\ IsSet(ended)
    /\ value.ended = ended
    /\ IsSet(value.started) /\ IsSet(value.ttfb) /\ IsSet(value.ended)
    /\ \A j, k \in DOMAIN Observed(value) :
         j < k => Observed(value)[j] <= Observed(value)[k]

C9_Witness ==
  /\ promise = "resolved"
  /\ IsSet(value.dnsLookup) /\ IsSet(value.tcpHandshake) /\ IsSet(value.sslHandshake)
  /\ value.started[1] < value.ended[1]

\* the latency of a timing sample, from its three numbers
NetworkLatency(r) ==
  IF r.serverTime.k = "nan" THEN NaN
  ELSE Num(r.ttfb[1] - r.started[1] - r.serverTime.n)

\* C10: every resolved latency probe appends timeToFirstByte - started -
\* serverProcessingTimeMs of its own timing sample, and the latency stage
\* issues exactly 20 probes, each a download of 1000 bytes.
C10_LatencySamples ==
  /\ [](/\ issued[1] <= 20
        /\ Returned(1) => issued[1] = 20
        /\ (InMeasure /\ test = 1 /\ issued[1] > 0) => options = download(1000))
  /\ [][ (InMeasure /\ test = 1 /\ loop = "await" /\ promise = "resolved") =>
           measurements' = Append(measurements, NetworkLatency(value)) ]_vars
  /\ [][ (InMeasure /\ test = 1 /\ test' = 1 /\ measurements' # measurements) =>
           (loop = "await" /\ promise = "resolved") ]_vars

C10_Witness ==
  /\ InMeasure
  /\ test = 1
  /\ issued[1] = 20
  /\ Len(measurements) = 19
  /\ \E k \in DOMAIN measurements : measurements[k] = Num(1)

\* (bytes * 8) / (durationMs / 1000) / 1000000 on a JavaScript number: the
\* quotient of bytes * 8 by durationMs * 1000, Infinity over a duration of
\* 0 and NaN over NaN
ThroughputMbps(bytes, duration) ==
  IF duration.k = "nan" THEN NaN
  ELSE IF duration.n = 0 THEN Infinity
  ELSE Rat(bytes * 8 * duration.d, duration.n * 1000)

\* C11: every resolved upload probe appends the throughput of the size it
\* uploaded over the duration the server reported for it in server-timing;
\* the sample is a function of these two alone, whatever the local readings
\* ended and timeToFirstByte are.
C11_UploadSamples ==
  /\ [](\A t \in (LastDownload + 1)..LastUpload :
          (InMeasure /\ test = t /\ issued[t] > 0) => options = upload(Plan[t].bytes))
  /\ [][ (InMeasure /\ Plan[test].dir = "upload" /\ loop = "await"
            /\ promise = "resolved") =>
           measurements' =
             Append(measurements, ThroughputMbps(options.data, value.serverTime)) ]_vars
  /\ [][ (InMeasure /\ Plan[test].dir = "upload" /\ test' = test
            /\ measurements' # measurements) =>
           (loop = "await" /\ promise = "resolved") ]_vars

C11_Witness ==
  /\ InMeasure
  /\ test = LastDownload + 1
  /\ loop = "top"
  /\ promise = "resolved"
  /\ value.serverTime = Num(1)
  /\ value.ended = value.ttfb
  /\ measurements # <<>>
  /\ measurements[Len(measurements)] = Num(88)

\* C12: every resolved download probe appends the throughput of the size it
\* requested over ended - timeToFirstByte of its own timing sample, the
\* throughput being (bytes * 8) / (durationMs / 1000) / 1000000: 1000000
\* bytes in 1000 ms are 8 Mbps.
C12_DownloadSamples ==
  /\ [](/\ ThroughputMbps(1000000, Num(1000)) = Num(8)
        /\ measureSpeed(1000000, Num(1000)) = Num(8)
        /\ \A t \in FirstDownload..LastDownload :
             (InMeasure /\ test = t /\ issued[t] > 0) => options = download(Plan[t].bytes))
  /\ [][ (InMeasure /\ Plan[test].dir = "download" /\ loop = "await"
            /\ promise = "resolved") =>
           measurements' =
             Append(measurements,
                    ThroughputMbps(options.bytes, Num(value.ended[1] - value.ttfb[1]))) ]_vars
  /\ [][ (InMeasure /\ Plan[test].dir = "download" /\ test' = test
            /\ measurements' # measurements) =>
           (loop = "await" /\ promise = "resolved") ]_vars

C12_Witness ==
  /\ InMeasure
  /\ test = FirstDownload
  /\ loop = "top"
  /\ promise = "resolved"
  /\ value.ended[1] = value.ttfb[1] + 1
  /\ measurements # <<>>
  /\ measurements[Len(measurements)] = Num(88)

\* promises resolved in the entries a..b of the plan
RECURSIVE ResolvedIn(_, _)
ResolvedIn(a, b) == IF a > b THEN 0 ELSE resolved[a] + ResolvedIn(a + 1, b)

\* the samples a transfer of entry t of the plan can give
SamplesOf(t) ==
  { ThroughputMbps(Plan[t].bytes, d) : d \in {NaN} \cup {Num(n) : n \in 0..MaxDisturb} }

\* the arrays kept in tests are those of the entries from..(test - 1), one
\* sample for each resolved probe of the entry
ArraysOf(from) ==
  /\ Len(tests) \in {test - from, test - from + 1}
  /\ \A k \in DOMAIN tests :
       /\ Len(tests[k]) = resolved[from + k - 1]
       /\ \A j \in DOMAIN tests[k] : tests[k][j] \in SamplesOf(from + k - 1)

\* C13: the headline of a direction is the 0.9 quartile over the arrays of
\* that direction joined: the download headline is taken over test1..test6,
\* which hold one sample for each resolved download probe of each size and
\* nothing else, and the upload headline over test7..test9, which hold one
\* sample for each resolved upload probe.
C13_HeadlineOverUnion ==
  /\ []((InMeasure /\ Plan[test].dir = "download") =>
          (ArraysOf(FirstDownload) /\ Len(tests) = test - FirstDownload))
  /\ []((pc \in {"measure", "done"} /\ test \in Tests /\ Plan[test].dir = "upload") =>
          ArraysOf(LastDownload + 1))
  /\ [][ (out' # out /\ out'[Len(out')].label = "Download speed") =>
           /\ out'[Len(out')].val =
                [f |-> "quartile", of |-> Flatten(tests) \o measurements, q |-> <<9, 10>>]
           /\ Len(Flatten(tests) \o measurements) = ResolvedIn(FirstDownload, LastDownload)
           /\ test = LastDownload
           /\ Len(measurements) = resolved[LastDownload]
           /\ \A j \in DOMAIN measurements : measurements[j] \in SamplesOf(LastDownload) ]_vars
  /\ [][ (out' # out /\ out'[Len(out')].label = "Upload speed") =>
           /\ out'[Len(out')].val =
                [f |-> "quartile", of |-> Flatten(tests'), q |-> <<9, 10>>]
           /\ Len(tests') = LastUpload - LastDownload
           /\ Len(Flatten(tests')) = ResolvedIn(LastDownload + 1, LastUpload) ]_vars
  /\ [](\A k \in DOMAIN out :
          /\ out[k].label = "Download speed" =>
               Len(out[k].val.of) = ResolvedIn(FirstDownload, LastDownload)
          /\ out[k].label = "Upload speed" =>
               Len(out[k].val.of) = ResolvedIn(LastDownload + 1, LastUpload))

C13_Witness ==
  /\ pc = "done"
  /\ rejected[LastUpload - 1] = 1
  /\ \E k \in DOMAIN out :
       /\ out[k].label = "Download speed"
       /\ Len(out[k].val.of) = 43
  /\ out[Len(out)].label = "Upload speed"
  /\ Len(out[Len(out)].val.of) = 27

\* the options download() or upload() builds for entry t of the plan
PlannedTransfer(t) ==
  IF Plan[t].dir = "upload" THEN upload(Plan[t].bytes) ELSE download(Plan[t].bytes)

SlotValues == {Undefined} \cup { <<n>> : n \in 0..(MaxDisturb + 1) }

\* the timing sample r with other contents in the three connection slots
WithConnection(r, a, b, c) ==
  [r EXCEPT !.dnsLookup = a, !.tcpHandshake = b, !.sslHandshake = c]

\* C15: a transfer none of whose 'lookup', 'connect' and 'secureConnect'
\* events fired still resolves; each of the three slots of the array it
\* delivers is undefined exactly when its event had not fired (the array
\* takes the slots as they are, and a slot is assigned only by its event,
\* with the reading of the clock), and the latency or throughput computed
\* from the array is the same whatever the three slots hold, and is a
\* number when the server duration is one.
C15_AbsentPhasesTolerated ==
  /\ [](promise = "resolved" =>
          /\ \A a, b, c \in SlotValues :
               Sample(test, WithConnection(value, a, b, c)) = Sample(test, value)
          /\ (value.serverTime # NaN /\ Plan[test].dir = "latency") =>
               Sample(test, value).k = "num")
  /\ [][ (promise # "resolved" /\ promise' = "resolved") =>
           /\ value'.dnsLookup = dnsLookup
           /\ value'.tcpHandshake = tcpHandshake
           /\ value'.sslHandshake = sslHandshake ]_vars
  /\ [][ /\ dnsLookup' # dnsLookup => (dnsLookup' = Undefined \/
             ( /\ (phase = "socket" /\ dnsLookup = Undefined) \/ phase = "ended"
               /\ dnsLookup' = <<now'>> ))
         /\ tcpHandshake' # tcpHandshake => (tcpHandshake' = Undefined \/
             ( /\ (phase = "socket" /\ tcpHandshake = Undefined) \/ phase = "ended"
               /\ tcpHandshake' = <<now'>> ))
         /\ sslHandshake' # sslHandshake => (sslHandshake' = Undefined \/
             ( /\ (phase = "socket" /\ sslHandshake = Undefined) \/ phase = "ended"
               /\ sslHandshake' = <<now'>> )) ]_vars

C15_Witness ==
  /\ InMeasure
  /\ test = 1
  /\ i >= 2
  /\ loop = "top"
  /\ promise = "resolved"
  /\ value.dnsLookup = Undefined
  /\ value.tcpHandshake = Undefined
  /\ value.sslHandshake = Undefined
  /\ Len(measurements) = i
  /\ measurements[i] = Num(1)

\* the let-variables of the request() call in flight
Slots == <<started, dnsLookup, tcpHandshake, sslHandshake, ttfb, ended>>

\* C16: every call of request() starts with let-variables of its own, all
\* undefined but started; the array a promise was resolved with does not
\* change afterwards, whatever event fires after the 'end' of the response;
\* a listener that an earlier call left on a shared socket assigns no
\* variable of the call in flight and changes no delivered array, and the
\* sample that is pushed is the one of the array as it was delivered.
C16_FreshAndImmutable ==
  /\ [][ issued' # issued =>
           /\ started' = <<now'>>
           /\ <<dnsLookup', tcpHandshake', sslHandshake', ttfb', ended'>> =
                <<Undefined, Undefined, Undefined, Undefined, Undefined>>
           /\ value' = <<>> ]_vars
  /\ [][ value' # value =>
           \/ promise = "pending" /\ promise' \in {"resolved", "rejected"}
           \/ issued' # issued ]_vars
  /\ [][ (promise = "resolved" /\ issued' = issued) =>
           (promise' = "resolved" /\ value' = value) ]_vars
  /\ [][ (phase = "ended" /\ Slots' # Slots /\ issued' = issued) =>
           /\ value' = value
           /\ promise' = promise
           /\ measurements' = measurements ]_vars
  /\ [][ stale' # stale =>
           /\ Slots' = Slots
           /\ header' = header
           /\ value' = value
           /\ promise' = promise
           /\ measurements' = measurements ]_vars
  /\ [][ (InMeasure /\ test' = test /\ measurements' # measurements) =>
           measurements' = Append(measurements, Sample(test, value)) ]_vars

C16_Witness ==
  /\ InMeasure
  /\ loop = "top"
  /\ promise = "resolved"
  /\ value.sslHandshake = Undefined
  /\ IsSet(sslHandshake)
  /\ i >= 2
  /\ Len(measurements) = i

\* the lines of out that report a rejected transfer
RECURSIVE ErrorLines(_)
ErrorLines(o) ==
  IF o = <<>> THEN 0
  ELSE (IF Head(o).label = "Error" THEN 1 ELSE 0) + ErrorLines(Tail(o))

RECURSIVE RejectedIn(_, _)
RejectedIn(a, b) == IF a > b THEN 0 ELSE rejected[a] + RejectedIn(a + 1, b)

\* the promise is settled and its then() callback has not run yet
Unhandled(state) == IF loop = "await" /\ promise = state THEN 1 ELSE 0

\* C17: a promise of request() is settled at most once, whatever fires
\* after it was settled, and then exactly one of the two callbacks of
\* then() runs: the first appends one sample, the second prints one error.
\* So the array of the loop running holds one sample for each of its
\* probes resolved so far, the errors printed are the probes rejected so
\* far, and no array is longer than the number of probes issued for it.
C17_SettlesOnce ==
  /\ [](\A t \in Tests :
          /\ issued[t] = Settled(t) + (IF t = test THEN inflight ELSE 0)
          /\ Settled(t) <= issued[t])
  /\ [](InMeasure =>
          /\ Len(measurements) = resolved[test] - Unhandled("resolved")
          /\ Len(measurements) <= issued[test]
          /\ ErrorLines(out) = RejectedIn(1, LastUpload) - Unhandled("rejected"))
  /\ [][ (resolved' # resolved \/ rejected' # rejected) =>
           /\ promise = "pending"
           /\ promise' \in {"resolved", "rejected"}
           /\ Settled(test)' = Settled(test) + 1 ]_vars
  /\ [][ (promise \in {"resolved", "rejected"} /\ promise' # promise) =>
           (issued' # issued /\ promise' = "pending") ]_vars
  /\ [][ (loop = "await" /\ loop' = "top") =>
           \/ /\ promise = "resolved"
              /\ Len(measurements') = Len(measurements) + 1
              /\ out' = out
           \/ /\ promise = "rejected"
              /\ measurements' = measurements
              /\ ErrorLines(out') = ErrorLines(out) + 1 ]_vars

C17_Witness ==
  /\ InMeasure
  /\ test = 1
  /\ i = 1
  /\ loop = "top"
  /\ promise = "resolved"
  /\ Len(measurements) = 1
  /\ resolved[1] = 1
  /\ rejected[1] = 0
  /\ disturb = 1
  /\ now = 0
  /\ value.serverTime = Num(0)
  /\ <<dnsLookup, tcpHandshake, sslHandshake>> = <<Undefined, Undefined, Undefined>>

\* no transfer is issued before both fetches have resolved and speedTest()
\* has passed its two awaits
LookupsFirst ==
  (\E t \in Tests : issued[t] > 0) =>
    /\ pc \notin {"locations", "trace"}
    /\ Len(out) >= 2
    /\ out[1].label = "Server location"
    /\ out[2].label = "Your IP"

\* C18: get() always settles: no outcome of its request, a network error
\* before any response among them, leaves the promise neither resolved nor
\* rejected; and no transfer is issued before both fetches have resolved.
\* (Violated: an 'error' before the response finds no listener and is
\* thrown as an uncaught exception; a response cut short never ends.)
C18_GetAlwaysSettles ==
  /\ meta \notin {"error", "aborted"}
  /\ (pc = "crashed" /\ test = 0) => meta \in {"resolved", "rejected"}
  /\ LookupsFirst

====
